---- MODULE Spec2Model ----
(***************************************************************************)
(* iiif-presenter: the identifier-to-filesystem mapping of main.rs         *)
(* (ManifestSource::path_for_id, ManifestSource::manifest_for) and the     *)
(* IIIF document constructors of iiif.rs.                                  *)
(*                                                                         *)
(* Rust Strings are TLA+ strings; format!() is concatenation with \o and   *)
(* the Display of an integer is ToString.  An Option is a record tagged    *)
(* "None" or "Some", a Result a record tagged "Ok" or "Err".               *)
(*                                                                         *)
(* Two specifications:                                                     *)
(*   Spec       one request served by manifest_for, step by step;          *)
(*   SpecCodec  the identifier/path codec applied to bounded inputs.       *)
(***************************************************************************)
EXTENDS Naturals, Sequences, FiniteSets, TLC

VARIABLES
    path_sep,     \* ManifestSource.path_sep, the configured separator
    item_id,      \* the request identifier (Id.value)
    pc,           \* position of the request inside manifest_for
    source_path,  \* local source_path of manifest_for
    source_kind,  \* what the filesystem holds at source_path
    loaded,       \* what Context::load returned for source_path
    context,      \* local context of manifest_for
    listed,       \* the entries read_dir has yielded so far, in order
    sequence,     \* local sequence of manifest_for
    result,       \* what manifest_for handed back to its caller
    codec         \* SpecCodec only: one encode/decode round of the codec

vars == <<path_sep, item_id, pc, source_path, source_kind, loaded, context,
          listed, sequence, result, codec>>

(***************************************************************************)
(* Bounds of the model.                                                    *)
(***************************************************************************)
MaxEntries == 2    \* directory entries yielded by one read_dir
MaxMeta == 2       \* metadata entries of one sidecar
MaxIdLen == 2      \* length of a parent identifier given to the codec
MaxNameLen == 2    \* length of a file name given to the codec

None == [tag |-> "None"]
Some(v) == [tag |-> "Some", value |-> v]
Ok(v) == [tag |-> "Ok", value |-> v]
Err(e) == [tag |-> "Err", value |-> e]
Unset == [tag |-> "Unset"]    \* a local that has not been assigned yet

(***************************************************************************)
(* String helpers (std::string::String / str).                             *)
(***************************************************************************)
RECURSIVE Replace(_, _, _)
\* str::replace(from, to) for a non-empty pattern: matches are found left to
\* right and do not overlap.
Replace(s, from, to) ==
    IF Len(s) < Len(from) THEN s
    ELSE IF SubSeq(s, 1, Len(from)) = from
         THEN to \o Replace(SubSeq(s, Len(from) + 1, Len(s)), from, to)
         ELSE SubSeq(s, 1, 1) \o Replace(SubSeq(s, 2, Len(s)), from, to)

\* str::contains(pat)
Contains(s, pat) ==
    \E i \in 1..(Len(s) + 1) :
        /\ i + Len(pat) - 1 <= Len(s)
        /\ SubSeq(s, i, i + Len(pat) - 1) = pat

RECURSIVE StringsUpTo(_, _)
\* every string of at most n characters drawn from chars
StringsUpTo(chars, n) ==
    IF n = 0 THEN {""}
    ELSE LET shorter == StringsUpTo(chars, n - 1)
         IN  shorter \cup {s \o c : s \in shorter, c \in chars}

(***************************************************************************)
(* std::path on a Unix target.                                             *)
(***************************************************************************)
MAIN_SEPARATOR == "/"

\* Path::is_absolute
IsAbsolute(p) == Len(p) > 0 /\ SubSeq(p, 1, 1) = MAIN_SEPARATOR

\* Path::join / PathBuf::push: an absolute argument replaces the receiver,
\* otherwise a separator is added unless the receiver is empty or ends in one.
PathJoin(base, p) ==
    IF IsAbsolute(p) THEN p
    ELSE IF Len(base) = 0 \/ SubSeq(base, Len(base), Len(base)) = MAIN_SEPARATOR
         THEN base \o p
         ELSE base \o MAIN_SEPARATOR \o p

RECURSIVE Segments(_, _)
\* the pieces of p between separators, cur being the piece under way
Segments(p, cur) ==
    IF Len(p) = 0 THEN <<cur>>
    ELSE IF SubSeq(p, 1, 1) = MAIN_SEPARATOR
         THEN <<cur>> \o Segments(SubSeq(p, 2, Len(p)), "")
         ELSE Segments(SubSeq(p, 2, Len(p)), cur \o SubSeq(p, 1, 1))

\* Path::components, on which the equality of two paths is decided: repeated
\* and trailing separators and non-leading "." pieces do not count.
Components(p) ==
    LET segs == Segments(p, "")
        keep(i) == /\ segs[i] # ""
                   /\ (segs[i] = "." => (i = 1))
        RECURSIVE Pick(_)
        Pick(i) == IF i > Len(segs) THEN <<>>
                   ELSE IF keep(i) THEN <<segs[i]>> \o Pick(i + 1)
                   ELSE Pick(i + 1)
    IN  [absolute |-> IsAbsolute(p), parts |-> Pick(1)]

\* PartialEq for Path
SamePath(p, q) == Components(p) = Components(q)

(***************************************************************************)
(* Configuration handed to the constructors.                               *)
(***************************************************************************)
BasePath == "/data"
BaseUrls_new(presentation, image) == [presentation |-> presentation, image |-> image]
BaseUrls == BaseUrls_new("http://p", "http://i")
Separators == {"-", "--"}

(***************************************************************************)
(* iiif.rs                                                                 *)
(***************************************************************************)
Single(v) == [kind |-> "Single", value |-> v]
Many(vs) == [kind |-> "Many", values |-> vs]

Uri_new(value) == [value |-> value]

Metadata_new(label, value) == [label |-> label, value |-> value]

Metadata_key_value(label, value) == [label |-> label, value |-> Single(value)]

ImageFormats == {"JPEG", "PNG", "Unknown"}

ImageFormat_extension(f) ==
    CASE f = "JPEG" -> "jpg"
      [] f = "PNG" -> "png"
      [] f = "Unknown" -> ""

ImageFormat_format(f) ==
    CASE f = "JPEG" -> "image/jpeg"
      [] f = "PNG" -> "image/png"
      [] f = "Unknown" -> "image/unknown"

Service_new_image_service(base_urls, image_id) ==
    [context |-> Uri_new("http://iiif.io/api/image/2/context.json"),
     id |-> Uri_new(base_urls.image \o "/" \o image_id),
     profile |-> Uri_new("http://iiif.io/api/image/2/level2.json"),
     protocol |-> Uri_new("http://iiiif.io/api/image")]

\* ImageResource::new with the item identifier left out of the asset id
ImageResource_new_NoItem(base_urls, id, image_id, image_format, width, height) ==
    [id |-> Uri_new(base_urls.image \o "/" \o image_id
                    \o "/full/full/default." \o ImageFormat_extension(image_format)),
     iiif_type |-> "dctypes:Image",
     format |-> ImageFormat_format(image_format),
     service |-> Service_new_image_service(base_urls, id),
     width |-> width,
     height |-> height]

ImageResource_new(base_urls, id, image_id, image_format, width, height) ==
    [id |-> Uri_new(base_urls.image \o "/" \o id \o "/" \o image_id
                    \o "/full/full/default." \o ImageFormat_extension(image_format)),
     iiif_type |-> "dctypes:Image",
     format |-> ImageFormat_format(image_format),
     service |-> Service_new_image_service(base_urls, id),
     width |-> width,
     height |-> height]

Resource_Image(image_resource) == [Image |-> image_resource]

\* Annotation::new targeting the presentation base instead of the canvas
Annotation_new_OnBase(base_urls, resource, on) ==
    [context |-> Uri_new("http://iiif.io/api/presentation/2/context.json"),
     iiif_type |-> "oa:Annotation",
     motivation |-> "sc:painting",
     resource |-> resource,
     on |-> Uri_new(base_urls.presentation)]

Annotation_new(base_urls, resource, on) ==
    [context |-> Uri_new("http://iiif.io/api/presentation/2/context.json"),
     iiif_type |-> "oa:Annotation",
     motivation |-> "sc:painting",
     resource |-> resource,
     on |-> on]

Canvas_new(base_urls, id, index, label, width, height) ==
    [id |-> Uri_new(base_urls.presentation \o "/" \o id \o "/canvas/" \o ToString(index)),
     context |-> Uri_new("http://iiif.io/api/presentation/2/context.json"),
     iiif_type |-> "sc:Canvas",
     label |-> label,
     height |-> height,
     width |-> width,
     images |-> <<>>]

Canvas_add_image(canvas, image) ==
    [canvas EXCEPT !.images = Append(@, image)]

Sequence_new(base_urls, id, label) ==
    [context |-> Uri_new("http://iiif.io/api/presentation/2/context.json"),
     id |-> Uri_new(base_urls.presentation \o "/" \o id \o "/sequence/normal"),
     iiif_type |-> "sc:Sequence",
     label |-> label,
     canvases |-> <<>>]

Sequence_add(seq, canvas) == [seq EXCEPT !.canvases = Append(@, canvas)]

\* Sequence::add_image counting the canvas it is about to push
Sequence_add_image_IndexFromOne(seq, base_urls, id, image_id, label, image_format, width, height) ==
    LET index == Len(seq.canvases) + 1
        canvas == Canvas_new(base_urls, id, index, label, width, height)
        image_resource ==
            ImageResource_new(base_urls, id, image_id, image_format, width, height)
        annotation ==
            Annotation_new(base_urls, Resource_Image(image_resource), canvas.id)
    IN  Sequence_add(seq, Canvas_add_image(canvas, annotation))

Sequence_add_image(seq, base_urls, id, image_id, label, image_format, width, height) ==
    LET index == Len(seq.canvases)
        canvas == Canvas_new(base_urls, id, index, label, width, height)
        image_resource ==
            ImageResource_new(base_urls, id, image_id, image_format, width, height)
        annotation ==
            Annotation_new(base_urls, Resource_Image(image_resource), canvas.id)
    IN  Sequence_add(seq, Canvas_add_image(canvas, annotation))

Manifest_new(base_urls, id, label, metadata, description) ==
    [context |-> Uri_new("http://iiif.io/api/presentation/2/context.json"),
     id |-> Uri_new(base_urls.presentation \o "/" \o id \o "/manifest"),
     iiif_type |-> "sc:Manifest",
     label |-> label,
     metadata |-> metadata,
     description |-> description,
     sequences |-> <<>>]

Manifest_add_sequence(manifest, seq) ==
    [manifest EXCEPT !.sequences = Append(@, seq)]

(***************************************************************************)
(* The collaborators of main.rs whose modules are not part of the sources: *)
(* the sidecar loader (mod context) and the image classifier (mod image).  *)
(***************************************************************************)
\* Context::empty(): no description, no metadata
Context_empty == [description |-> None, metadata |-> <<>>]

RECURSIVE SeqsUpTo(_, _)
\* every sequence of at most n elements of S
SeqsUpTo(S, n) ==
    IF n = 0 THEN {<<>>}
    ELSE LET shorter == SeqsUpTo(S, n - 1)
         IN  shorter \cup {Append(q, e) : q \in shorter, e \in S}

SidecarEntries ==
    {Metadata_key_value("title", "t"), Metadata_new("author", Many(<<"x", "y">>))}

SidecarDescriptions == {None, Some(""), Some("d")}

\* Context::load(&source_path): a Context, or an error when the sidecar is
\* absent or cannot be read
ContextLoadResults ==
    {Err(r) : r \in {"absent", "unreadable"}}
    \cup {Ok([description |-> d, metadata |-> m]) :
            d \in SidecarDescriptions, m \in SeqsUpTo(SidecarEntries, MaxMeta)}

\* ImageInfo::for_file(&path): None for a file that is no image, or the
\* format and the dimensions of the image
ImageInfos ==
    {[format |-> "JPEG", width |-> 800, height |-> 1200],
     [format |-> "PNG", width |-> 1200, height |-> 800],
     [format |-> "Unknown", width |-> 1, height |-> 2]}

(***************************************************************************)
(* What the filesystem can answer.                                         *)
(***************************************************************************)
PathKinds == {"missing", "file", "dir"}

FileNames == {"page1.jpg", "q"}

\* One item of the read_dir iterator: an io::Error, or a DirEntry whose
\* file name is a string (Some) or has no string form (None), together
\* with what the classifier says about the file.
DirEntries ==
    {[tag |-> "Err", file_name |-> None, info |-> None]}
    \cup {[tag |-> "Ok", file_name |-> Some(n), info |-> i] :
            n \in FileNames, i \in {None} \cup {Some(x) : x \in ImageInfos}}
    \cup {[tag |-> "Ok", file_name |-> None, info |-> Some(x)] :
            x \in {y \in ImageInfos : y.format = "JPEG"}}

ItemIds == {"", "a", "books-section1"}

(***************************************************************************)
(* main.rs: ManifestSource                                                 *)
(***************************************************************************)
\* ManifestSource::path_for_id
path_for_id(base_path, sep, id) ==
    LET os_sep == MAIN_SEPARATOR
        path == Replace(id, sep, os_sep)
    IN  PathJoin(base_path, path)

\* the image identifier manifest_for derives for a file of the directory
ImageId(id, sep, file_name) == id \o sep \o file_name

\* the checks of source_path without the is_dir check
CheckPath_NoDirCheck(path, kind) ==
    IF kind = "missing"
    THEN Err("path " \o path \o " does not exist")
    ELSE Ok(path)

\* manifest_for, the two checks of source_path
CheckPath(path, kind) ==
    IF kind = "missing"
    THEN Err("path " \o path \o " does not exist")
    ELSE IF kind # "dir"
         THEN Err("path " \o path \o " is not a directory")
         ELSE Ok(path)

\* manifest_for, match Context::load(&source_path)
ContextOf(load_result) ==
    IF load_result.tag = "Ok" THEN load_result.value ELSE Context_empty

\* the loop body dropping the images whose format is Unknown
ScanEntry_SkipsUnknownFormat(seq, id, sep, entry) ==
    IF entry.tag = "Err" THEN seq
    ELSE IF entry.info.tag = "Some" /\ entry.file_name.tag = "Some"
            /\ entry.info.value.format # "Unknown"
         THEN Sequence_add_image(seq, BaseUrls, id,
                                 ImageId(id, sep, entry.file_name.value),
                                 entry.file_name.value, entry.info.value.format,
                                 entry.info.value.width, entry.info.value.height)
         ELSE seq

\* manifest_for, the body of the loop over read_dir for one item; the
\* ImageInfo handed to add_image is its format, width and height
ScanEntry(seq, id, sep, entry) ==
    IF entry.tag = "Err" THEN seq
    ELSE IF entry.info.tag = "Some"
         THEN IF entry.file_name.tag = "Some"
              THEN LET file_name == entry.file_name.value
                       image_info == entry.info.value
                   IN  Sequence_add_image(seq, BaseUrls, id,
                                          ImageId(id, sep, file_name), file_name,
                                          image_info.format, image_info.width,
                                          image_info.height)
              ELSE seq
         ELSE seq

\* the description without the fallback to the identifier
DescriptionOf_NoFallback(ctx, id) == ctx.description

\* manifest_for, the description handed to Manifest::new
DescriptionOf(ctx, id) ==
    Some(IF ctx.description.tag = "Some" THEN ctx.description.value ELSE id)

\* the metadata with the location entry put first
MetadataOf_LocationFirst(ctx, id) ==
    <<Metadata_key_value("location", id)>> \o ctx.metadata

\* manifest_for, the metadata handed to Manifest::new
MetadataOf(ctx, id) ==
    Append(ctx.metadata, Metadata_key_value("location", id))

\* manifest_for, from the description to Ok(manifest)
BuildManifest(ctx, id, seq) ==
    LET description == DescriptionOf(ctx, id)
        metadata == MetadataOf(ctx, id)
        manifest == Manifest_new(BaseUrls, id, id, metadata, description)
    IN  Ok(Manifest_add_sequence(manifest, seq))

(***************************************************************************)
(* One request: index hands the identifier of the URL to manifest_for.     *)
(***************************************************************************)
Init ==
    /\ path_sep \in Separators
    /\ item_id \in ItemIds
    /\ pc = "ResolvePath"
    /\ source_path = ""
    /\ source_kind = "unknown"
    /\ loaded = Unset
    /\ context = Unset
    /\ listed = <<>>
    /\ sequence = Unset
    /\ result = Unset
    /\ codec = Unset

\* lines 42-48: resolve the identifier and check what is there
ResolvePath ==
    /\ pc = "ResolvePath"
    /\ \E kind \in PathKinds :
        LET path == path_for_id(BasePath, path_sep, item_id)
            checked == CheckPath(path, kind)
        IN  /\ source_path' = path
            /\ source_kind' = kind
            /\ IF checked.tag = "Err"
               THEN pc' = "Failed" /\ result' = checked
               ELSE pc' = "LoadSidecar" /\ result' = result
    /\ UNCHANGED <<path_sep, item_id, loaded, context, listed, sequence, codec>>

\* lines 50-56: load the sidecar, falling back to the empty context
LoadSidecar ==
    /\ pc = "LoadSidecar"
    /\ \E r \in ContextLoadResults :
        /\ loaded' = r
        /\ context' = ContextOf(r)
    /\ pc' = "ScanDirectory"
    /\ UNCHANGED <<path_sep, item_id, source_path, source_kind, listed, sequence,
                   result, codec>>

\* lines 58-59: create the sequence (labelled with the identifier) and open
\* the directory; read_dir's Result is unwrapped, so its Err ends the
\* request in a panic
ScanDirectory ==
    /\ pc = "ScanDirectory"
    /\ sequence' = Sequence_new(BaseUrls, item_id, item_id)
    /\ \E opened \in BOOLEAN :
        IF opened
        THEN pc' = "ClassifyEntry" /\ result' = result
        ELSE pc' = "Panicked" /\ result' = [tag |-> "Panic"]
    /\ UNCHANGED <<path_sep, item_id, source_path, source_kind, loaded, context,
                   listed, codec>>

\* lines 59-89: one turn of the loop, for the next item of the iterator
ClassifyEntry ==
    /\ pc = "ClassifyEntry"
    /\ Len(listed) < MaxEntries
    /\ \E entry \in DirEntries :
        /\ listed' = Append(listed, entry)
        /\ sequence' = ScanEntry(sequence, item_id, path_sep, entry)
    /\ UNCHANGED <<path_sep, item_id, pc, source_path, source_kind, loaded,
                   context, result, codec>>

\* line 59: the iterator is exhausted
EndOfListing ==
    /\ pc = "ClassifyEntry"
    /\ pc' = "BuildGraph"
    /\ UNCHANGED <<path_sep, item_id, source_path, source_kind, loaded, context,
                   listed, sequence, result, codec>>

\* lines 91-103: build the manifest and return it
BuildGraph ==
    /\ pc = "BuildGraph"
    /\ result' = BuildManifest(context, item_id, sequence)
    /\ pc' = "Done"
    /\ UNCHANGED <<path_sep, item_id, source_path, source_kind, loaded, context,
                   listed, sequence, codec>>

Next ==
    \/ ResolvePath
    \/ LoadSidecar
    \/ ScanDirectory
    \/ ClassifyEntry
    \/ EndOfListing
    \/ BuildGraph

Spec == Init /\ [][Next]_vars

(***************************************************************************)
(* The codec on its own: an identifier is encoded for a file name and      *)
(* decoded again.                                                          *)
(***************************************************************************)
IdChars == {"a", "b", "-"}

CodecIds == StringsUpTo(IdChars, MaxIdLen)

\* file names a directory can hold: not empty, no path separator
CodecNames == StringsUpTo(IdChars, MaxNameLen) \ {""}

InitCodec ==
    /\ path_sep \in Separators
    /\ item_id \in CodecIds
    /\ pc = "Encode"
    /\ source_path = ""
    /\ source_kind = "unknown"
    /\ loaded = Unset
    /\ context = Unset
    /\ listed = <<>>
    /\ sequence = Unset
    /\ result = Unset
    /\ codec = Unset

\* the directory of item_id holds a file f, whose identifier is derived
Encode ==
    /\ pc = "Encode"
    /\ \E f \in CodecNames :
        codec' = [tag |-> "Encoded",
                  file_name |-> f,
                  file |-> PathJoin(path_for_id(BasePath, path_sep, item_id), f),
                  image_id |-> ImageId(item_id, path_sep, f),
                  decoded |-> ""]
    /\ pc' = "Decode"
    /\ UNCHANGED <<path_sep, item_id, source_path, source_kind, loaded, context,
                   listed, sequence, result>>

\* the derived identifier is resolved as a request would resolve it
Decode ==
    /\ pc = "Decode"
    /\ codec' = [codec EXCEPT !.tag = "Decoded",
                              !.decoded = path_for_id(BasePath, path_sep, codec.image_id)]
    /\ pc' = "Decoded"
    /\ UNCHANGED <<path_sep, item_id, source_path, source_kind, loaded, context,
                   listed, sequence, result>>

NextCodec ==
    \/ Encode
    \/ Decode

SpecCodec == InitCodec /\ [][NextCodec]_vars

(***************************************************************************)
(* Vocabulary of the properties.                                           *)
(***************************************************************************)
Resolved == pc # "ResolvePath"
Scanning == pc \in {"ClassifyEntry", "BuildGraph", "Done"}
Returned == pc = "Done" /\ result.tag = "Ok"
Over == pc \in {"Done", "Failed", "Panicked"}

MissingMessage(path) == "path " \o path \o " does not exist"
NotDirectoryMessage(path) == "path " \o path \o " is not a directory"

\* an item of the listing that is readable, classified and has a string name
Accepted(e) == e.tag = "Ok" /\ e.info.tag = "Some" /\ e.file_name.tag = "Some"
Images == SelectSeq(listed, Accepted)

LocationEntry == [label |-> "location", value |-> [kind |-> "Single", value |-> item_id]]
SidecarMetadata == IF loaded.tag = "Ok" THEN loaded.value.metadata ELSE <<>>
SidecarDescription == IF loaded.tag = "Ok" THEN loaded.value.description ELSE None

ExtensionTable == [JPEG |-> "jpg", PNG |-> "png", Unknown |-> ""]

(***************************************************************************)
(* C1: manifest_for fails with the 'does not exist' message exactly when   *)
(* nothing is at the resolved path and with the distinct 'is not a         *)
(* directory' message exactly when something other than a directory is     *)
(* there; in both cases the request is over without a Manifest, and for a  *)
(* directory neither error is returned.                                    *)
(***************************************************************************)
C1_PathErrors ==
    Resolved =>
        /\ MissingMessage(source_path) # NotDirectoryMessage(source_path)
        /\ (source_kind = "missing")
             <=> (result.tag = "Err" /\ result.value = MissingMessage(source_path))
        /\ (source_kind = "file")
             <=> (result.tag = "Err" /\ result.value = NotDirectoryMessage(source_path))
        /\ (source_kind # "dir") => (pc = "Failed" /\ result.tag = "Err")
        /\ (source_kind = "dir") => (pc # "Failed" /\ result.tag # "Err")

C1_Witness ==
    /\ pc = "Failed"
    /\ source_kind = "file"
    /\ item_id = "books-section1"
    /\ result.value = "path /data/books/section1 is not a directory"

(***************************************************************************)
(* C2: once ResolvePath has succeeded (the resolved path was an existing   *)
(* directory), nothing aborts the request: it is never failed or ended     *)
(* without a Manifest, whatever listing the directory gives.               *)
(***************************************************************************)
C2_NoAbortAfterResolve ==
    (Resolved /\ source_kind = "dir") =>
        /\ pc \notin {"Failed", "Panicked"}
        /\ Over => result.tag = "Ok"

(***************************************************************************)
(* C3: when the sidecar loader fails for an existing source directory,     *)
(* manifest_for still returns a Manifest whose metadata is the single      *)
(* 'location' entry and whose description is the root identifier, and it   *)
(* never returns the loader's error.                                       *)
(***************************************************************************)
C3_SidecarFailureStillManifest ==
    (Over /\ loaded.tag = "Err") =>
        /\ result.tag = "Ok"
        /\ result.value.metadata = <<LocationEntry>>
        /\ result.value.description = Some(item_id)

(***************************************************************************)
(* C4: the canvases of the Sequence are exactly the accepted items of the  *)
(* listing (readable, classified, named) in listing order, one canvas      *)
(* each; no other item adds a canvas or an error, and the returned         *)
(* Manifest holds that Sequence, empty when no item was accepted.          *)
(***************************************************************************)
C4_CanvasesAreImages ==
    Scanning =>
        /\ Len(sequence.canvases) = Len(Images)
        /\ \A k \in 1..Len(Images) :
              /\ sequence.canvases[k].label = Images[k].file_name.value
              /\ sequence.canvases[k].width = Images[k].info.value.width
              /\ sequence.canvases[k].height = Images[k].info.value.height
        /\ result.tag # "Err"
        /\ (pc = "Done") =>
              /\ result.tag = "Ok"
              /\ result.value.sequences = <<sequence>>
              /\ (Images = <<>>) => (result.value.sequences[1].canvases = <<>>)

C4_Witness ==
    /\ Returned
    /\ Len(listed) = 2
    /\ ~Accepted(listed[1])
    /\ Accepted(listed[2])
    /\ Len(result.value.sequences[1].canvases) = 1

(***************************************************************************)
(* C5: the metadata of the returned Manifest is the sidecar's list in its  *)
(* order, followed by exactly one entry labelled 'location' whose single   *)
(* value is the root identifier.                                           *)
(***************************************************************************)
C5_MetadataOrder ==
    (pc = "Done") =>
        /\ result.tag = "Ok"
        /\ result.value.metadata = SidecarMetadata \o <<LocationEntry>>
        /\ Len(result.value.metadata) = Len(SidecarMetadata) + 1

C5_Witness ==
    /\ Returned
    /\ Len(SidecarMetadata) = 2
    /\ SidecarMetadata[1] # SidecarMetadata[2]
    /\ result.value.metadata[3] = LocationEntry

(***************************************************************************)
(* C6 as stated: the description of the returned Manifest is the sidecar   *)
(* description if present and the root identifier otherwise, and it is     *)
(* neither absent nor the empty string.                                    *)
(***************************************************************************)
C6_DescriptionNeverEmpty ==
    (pc = "Done") =>
        /\ result.value.description.tag = "Some"
        /\ result.value.description.value =
              (IF SidecarDescription.tag = "Some"
               THEN SidecarDescription.value ELSE item_id)
        /\ result.value.description.value # ""

(***************************************************************************)
(* C6 amended: the description of the returned Manifest is never absent;   *)
(* it is the sidecar description if present and the root identifier        *)
(* otherwise, and it is the empty string exactly when that string is.      *)
(***************************************************************************)
C6_DescriptionNeverAbsent ==
    (pc = "Done") =>
        /\ result.tag = "Ok"
        /\ result.value.description.tag = "Some"
        /\ result.value.description.value =
              (IF SidecarDescription.tag = "Some"
               THEN SidecarDescription.value ELSE item_id)
        /\ (result.value.description.value = "")
             <=> (\/ SidecarDescription = Some("")
                  \/ (SidecarDescription = None /\ item_id = ""))

C6_Witness ==
    /\ Returned
    /\ SidecarDescription = None
    /\ item_id = "a"
    /\ result.value.description = Some("a")

(***************************************************************************)
(* C7: the canvas at zero-based position k of the Sequence has the id      *)
(* {presentation_base}/I/canvas/k, so the ids of one Sequence are          *)
(* pairwise distinct.                                                      *)
(***************************************************************************)
C7_CanvasIds ==
    Scanning =>
        /\ \A k \in 1..Len(sequence.canvases) :
              sequence.canvases[k].id.value =
                  "http://p/" \o item_id \o "/canvas/" \o ToString(k - 1)
        /\ \A j, k \in 1..Len(sequence.canvases) :
              (j # k) => (sequence.canvases[j].id # sequence.canvases[k].id)

C7_Witness ==
    /\ Scanning
    /\ item_id = "a"
    /\ Len(sequence.canvases) = 2
    /\ sequence.canvases[1].id.value = "http://p/a/canvas/0"
    /\ sequence.canvases[2].id.value = "http://p/a/canvas/1"

(***************************************************************************)
(* C8: the image resource of the canvas built for file F of root I has     *)
(* the asset id {image_base}/I/{I}{S}{F}/full/full/default.{ext}, ext      *)
(* being jpg, png or empty by format, and the canvas has the classifier's  *)
(* width and height.                                                       *)
(***************************************************************************)
C8_AssetIds ==
    Scanning =>
        \A k \in 1..Len(sequence.canvases) :
            k <= Len(Images) =>
                LET canvas == sequence.canvases[k]
                    file == Images[k].file_name.value
                    info == Images[k].info.value
                IN  /\ Len(canvas.images) >= 1
                    /\ canvas.images[1].resource.Image.id.value =
                          "http://i/" \o item_id \o "/" \o item_id \o path_sep \o file
                          \o "/full/full/default." \o ExtensionTable[info.format]
                    /\ canvas.width = info.width
                    /\ canvas.height = info.height

C8_Witness ==
    /\ Returned
    /\ item_id = "books-section1"
    /\ path_sep = "-"
    /\ Len(result.value.sequences[1].canvases) = 1
    /\ LET canvas == result.value.sequences[1].canvases[1]
       IN  /\ canvas.width = 800
           /\ canvas.height = 1200
           /\ canvas.images[1].resource.Image.id.value =
                "http://i/books-section1/books-section1-page1.jpg/full/full/default.jpg"

(***************************************************************************)
(* C9: for a file name that does not contain the separator, resolving the  *)
(* derived image identifier P+S+F gives the path of the file: the path     *)
(* resolved for P with F appended as one further segment.                  *)
(***************************************************************************)
C9_RoundTrip ==
    (codec.tag = "Decoded" /\ ~Contains(codec.file_name, path_sep)) =>
        SamePath(codec.decoded, codec.file)

(***************************************************************************)
(* C10: every canvas of the Sequence owns exactly one Annotation, whose    *)
(* 'on' is the id of that canvas and whose resource has the width and      *)
(* height of that canvas.                                                  *)
(***************************************************************************)
C10_Annotations ==
    Scanning =>
        \A k \in 1..Len(sequence.canvases) :
            LET canvas == sequence.canvases[k]
            IN  /\ Len(canvas.images) = 1
                /\ canvas.images[1].on = canvas.id
                /\ \A j \in 1..Len(sequence.canvases) :
                      (j # k) => (canvas.images[1].on # sequence.canvases[j].id)
                /\ canvas.images[1].resource.Image.width = canvas.width
                /\ canvas.images[1].resource.Image.height = canvas.height

C10_Witness ==
    /\ Scanning
    /\ Len(sequence.canvases) = 2
    /\ sequence.canvases[1].width # sequence.canvases[2].width
    /\ sequence.canvases[2].images[1].on = sequence.canvases[2].id
    /\ sequence.canvases[2].images[1].resource.Image.width = sequence.canvases[2].width

====
